---- MODULE Spec2Model ----
(***************************************************************************)
(* Model of src/src/deque/mod.rs: Deque<T>, a ring buffer over RawVec<T>.  *)
(*                                                                         *)
(* The heap block behind ring_buf.ptr is modelled slot by slot, together   *)
(* with the number of bytes the allocator really handed out, so that an    *)
(* access to a slot that does not lie inside the allocation is visible.    *)
(* Such an access is undefined behaviour; its outcome is a choice between  *)
(* "works" (the bytes happen to be there), "garbage" (the bytes are not    *)
(* the ones written) and "fault" (the process is killed).  A run that      *)
(* survives such accesses finds the same of the first two at each of them. *)
(*                                                                         *)
(* Deque<T> never inspects an element, so the k-th pushed element is named *)
(* k: every run with other element values is a relabelling of such a run.  *)
(***************************************************************************)
EXTENDS Integers, Sequences, FiniteSets, TLC

\* ---------------------------------------------------------------- bounds
MaxOps == 6          \* pushes and pops recorded in one run
MaxElemSize == 2     \* largest size_of::<T>() explored
UsizeBits == 12      \* width of usize in the model

\* Capacities up to 2^MaxCapBits are tried for the cursor arithmetic.
MaxCapBits == 4

\* ------------------------------------------------------------- constants
DEFAULT_CAPACITY == 1

\* Elements are 1, 2, ...; the two other results of a read or a pop:
None == 0            \* Option::None
Uninit == 0 - 1      \* bytes that are not a value written by a push

\* Element types T as <<size_of::<T>(), align_of::<T>()>>: the size is a
\* positive multiple of the alignment (zero-sized T is rejected by
\* with_capacity's assert before a deque exists).
ElemTypes == {t \in (1..MaxElemSize) \X {1, 2} : t[1] % t[2] = 0}

VARIABLES
    tail,        \* Deque.tail
    head,        \* Deque.head
    ring_buf,    \* Deque.ring_buf : RawVec { ptr, cap }
    heap,        \* the block behind ring_buf.ptr: [bytes, mem]
    elem,        \* T as <<size, align>>
    S,           \* the abstract sequence the deque stands for
    hist,        \* completed pushes and pops, <<op, value, expected>>
    peek,        \* result of the last front()/back() since the last mutation
    fault,       \* the process was killed by an invalid access
    dropped,     \* the deque was destroyed
    drop_log,    \* what the destruction did: dealloc calls, element drops
    oom,         \* the allocator has returned null at least once
    op,          \* the operation called last
    beyond,      \* what this run finds behind the end of its allocation
    heap_limit   \* the allocator of this run can run out of memory

vars == <<tail, head, ring_buf, heap, elem, S, hist, peek, fault, dropped, drop_log,
          oom, op, beyond, heap_limit>>

\* ------------------------------------------------------ usize arithmetic
Modulus == 2 ^ UsizeBits

usize_wrapping_add(a, b) == (a + b) % Modulus

\* usize subtraction that stops at zero instead of wrapping.
usize_saturating_sub(a, b) == IF a >= b THEN a - b ELSE 0

usize_wrapping_sub(a, b) == (a + Modulus - b) % Modulus

RECURSIVE BitAnd(_, _)
BitAnd(a, b) ==
    IF a = 0 \/ b = 0 THEN 0
    ELSE (a % 2) * (b % 2) + 2 * BitAnd(a \div 2, b \div 2)

RECURSIVE is_power_of_two(_)
is_power_of_two(n) ==
    IF n <= 0 THEN FALSE
    ELSE IF n = 1 THEN TRUE
    ELSE n % 2 = 0 /\ is_power_of_two(n \div 2)

wrap_index(index, size) == BitAnd(index, size - 1)

Min(a, b) == IF a <= b THEN a ELSE b

\* ------------------------------------------------------------- the deque
\* The deque as one value, the `self` of the methods.
Self == [tail |-> tail, head |-> head, ring_buf |-> ring_buf, heap |-> heap]

cap(d) == d.ring_buf.cap

\* len() without the mask `& self.cap() - 1`.
len_nomask(d) == usize_wrapping_sub(d.head, d.tail)

len(d) == BitAnd(usize_wrapping_sub(d.head, d.tail), cap(d) - 1)

\* is_empty() that knows only the position both cursors start at.
is_empty_origin(d) == d.head = 0 /\ d.tail = 0

is_empty(d) == len(d) = 0

\* is_full() without the slot held in reserve.
is_full_no_reserve(d) == cap(d) - len(d) = 0

is_full(d) == cap(d) - len(d) = 1

wrapping_add(d, index, addend) ==
    wrap_index(usize_wrapping_add(index, addend), cap(d))

wrapping_sub(d, index, subtrahend) ==
    wrap_index(usize_wrapping_sub(index, subtrahend), cap(d))

\* ---------------------------------------------------------------- memory
Layout_array(n) == [size |-> elem[1] * n, align |-> elem[2]]

\* Slot i lies wholly inside the block the allocator handed out.
InRegion(d, i) ==
    d.ring_buf.ptr # "null" /\ (i + 1) * elem[1] <= d.heap.bytes

UbOutcomes == {"works", "garbage", "fault"}

\* An access outside the allocation finds the bytes it expects only when
\* there is memory behind the pointer at all.
Lands(d, i, ub) ==
    InRegion(d, i) \/ (ub = "works" /\ d.ring_buf.ptr # "null")

\* ptr.add(i).write(x)
SlotWrite(d, i, x, ub) ==
    [d EXCEPT !.heap.mem[i] = IF Lands(d, i, ub) THEN x ELSE Uninit]

\* ptr.add(i).read(), *ptr.add(i)
SlotRead(d, i, ub) ==
    IF Lands(d, i, ub) THEN d.heap.mem[i] ELSE Uninit

\* alloc(layout): a fresh uninitialised block, or null.
alloc(layout, n, allocOk) ==
    [ptr  |-> IF allocOk THEN "block" ELSE "null",
     heap |-> [bytes |-> IF allocOk THEN layout.size ELSE 0,
               mem   |-> [i \in 0..(n - 1) |-> Uninit]]]

\* realloc(ptr, old_layout, new_size), seen through new_cap slots: the block
\* keeps the bytes of its first min(old size, new size) bytes; when it stays
\* in place the bytes behind it are the same bytes as before.
realloc(d, new_size, new_cap, allocOk, moved) ==
    LET kept(i) ==
            /\ i < cap(d)
            /\ allocOk
            /\ d.ring_buf.ptr # "null"
            /\ \/ ~moved
               \/ (i + 1) * elem[1] <= Min(d.heap.bytes, new_size)
    IN  [ptr  |-> IF allocOk THEN "block" ELSE "null",
         heap |-> [bytes |-> IF allocOk THEN new_size ELSE 0,
                   mem   |-> [i \in 0..(new_cap - 1) |->
                                 IF kept(i) THEN d.heap.mem[i] ELSE Uninit]]]

\* RawVec::with_capacity
with_capacity(n, allocOk) ==
    LET layout == Layout_array(n)
        a == alloc(layout, n, allocOk)
    IN  [ring_buf |-> [ptr |-> a.ptr, cap |-> n], heap |-> a.heap]

\* grow() that adds one slot instead of doubling.
grow_by_one(d, allocOk, moved) ==
    LET new_cap == cap(d) + 1
        old_layout == Layout_array(cap(d))
        r == realloc(d, old_layout.align * new_cap, new_cap, allocOk, moved)
    IN  [d EXCEPT !.ring_buf = [ptr |-> r.ptr, cap |-> new_cap],
                  !.heap = r.heap]

\* RawVec::grow
grow(d, allocOk, moved) ==
    LET new_cap == IF cap(d) = 0 THEN 1 ELSE cap(d) * 2
        old_layout == Layout_array(cap(d))
        r == realloc(d, old_layout.align * new_cap, new_cap, allocOk, moved)
    IN  [d EXCEPT !.ring_buf = [ptr |-> r.ptr, cap |-> new_cap],
                  !.heap = r.heap]

\* ptr::copy_nonoverlapping(src, dst, count) over slots
RECURSIVE copy_nonoverlapping(_, _, _, _, _)
copy_nonoverlapping(d, src, dst, count, ub) ==
    IF count = 0 THEN d
    ELSE copy_nonoverlapping(
             SlotWrite(d, dst, SlotRead(d, src, ub), ub),
             src + 1, dst + 1, count - 1, ub)

\* try_resize() that advances head by the new capacity.
try_resize_new_cap(d, allocOk, moved, ub) ==
    IF is_full(d)
    THEN LET g == grow(d, allocOk, moved)
         IN  IF g.tail > g.head
             THEN [copy_nonoverlapping(g, 0, cap(d), g.head, ub)
                      EXCEPT !.head = g.head + cap(g)]
             ELSE g
    ELSE d

\* Deque::try_resize
try_resize(d, allocOk, moved, ub) ==
    IF is_full(d)
    THEN LET old_cap == cap(d)
             g == grow(d, allocOk, moved)
         IN  IF g.tail > g.head
             THEN [copy_nonoverlapping(g, 0, old_cap, g.head, ub)
                      EXCEPT !.head = g.head + old_cap]
             ELSE g
    ELSE d

\* Some slot try_resize copies from or to is outside the allocation.
ResizeOutside(d, allocOk, moved) ==
    /\ is_full(d)
    /\ d.tail > d.head
    /\ LET g == grow(d, allocOk, moved)
       IN  \E j \in 0..(d.head - 1) :
               ~InRegion(g, j) \/ ~InRegion(g, cap(d) + j)

\* ------------------------------------------------------------ bookkeeping
Pushes == {"push_front", "push_back"}

Pops == {"pop_front", "pop_back"}

\* hist entries are <<op, value, expected>>: the element pushed or the result
\* returned, and the result the abstract sequence S gives.
nPush == Cardinality({i \in DOMAIN hist : hist[i][1] \in Pushes})

nPopSome == Cardinality({i \in DOMAIN hist : hist[i][1] \in Pops /\ hist[i][2] # None})

NextElem == nPush + 1

NoPeek == <<"none", None, None>>

Running == ~fault /\ ~dropped

Commit(d) ==
    /\ tail' = d.tail
    /\ head' = d.head
    /\ ring_buf' = d.ring_buf
    /\ heap' = d.heap

\* The allocator is only asked when the buffer is full, and an undefined
\* outcome needs an access outside the allocation.
Choice(d, allocOk, moved, ub, outside) ==
    /\ ~is_full(d) => allocOk /\ ~moved
    /\ ~allocOk => heap_limit
    /\ ~allocOk => moved
    /\ IF outside
       THEN ub = "fault" \/ beyond \in {"none", ub}
       ELSE ub = "works"
    /\ beyond' = IF outside /\ ub # "fault" THEN ub ELSE beyond

\* ------------------------------------------------------------------ Init
\* new() that starts with room for one element.
new_roomy(allocOk) ==
    [tail |-> 0, head |-> 0] @@ with_capacity(2 * DEFAULT_CAPACITY, allocOk)

\* Deque::new
new(allocOk) ==
    [tail |-> 0, head |-> 0] @@ with_capacity(DEFAULT_CAPACITY, allocOk)

\* The state after `Deque::<T>::new()`; limited tells whether the allocator
\* of the run may return null.
Constructed(limited) ==
    /\ heap_limit = limited
    /\ elem \in ElemTypes
    /\ \E allocOk \in BOOLEAN :
          LET d == new(allocOk)
          IN  /\ ~allocOk => limited
              /\ tail = d.tail
              /\ head = d.head
              /\ ring_buf = d.ring_buf
              /\ heap = d.heap
              /\ oom = ~allocOk
    /\ S = <<>>
    /\ hist = <<>>
    /\ peek = NoPeek
    /\ fault = FALSE
    /\ dropped = FALSE
    /\ drop_log = <<>>
    /\ op = "new"
    /\ beyond = "none"

\* --------------------------------------------------------------- actions
\* The process is killed by an access outside its memory: nothing of the
\* deque is left.
Killed ==
    /\ fault' = TRUE
    /\ tail' = 0
    /\ head' = 0
    /\ ring_buf' = [ptr |-> "null", cap |-> DEFAULT_CAPACITY]
    /\ heap' = [bytes |-> 0, mem |-> [i \in 0..(DEFAULT_CAPACITY - 1) |-> Uninit]]
    /\ S' = <<>>
    /\ hist' = <<>>
    /\ peek' = NoPeek

push_front ==
    /\ Running
    /\ op' = "push_front"
    /\ Len(hist) < MaxOps
    /\ \E allocOk, moved \in BOOLEAN, ub \in UbOutcomes :
          LET x  == NextElem
              d1 == try_resize(Self, allocOk, moved, ub)
              d2 == [d1 EXCEPT !.tail = wrapping_sub(d1, d1.tail, 1)]
              d3 == SlotWrite(d2, d2.tail, x, ub)
              outside == \/ ResizeOutside(Self, allocOk, moved)
                         \/ ~InRegion(d2, d2.tail)
          IN  /\ Choice(Self, allocOk, moved, ub, outside)
              /\ oom' = (oom \/ ~allocOk)
              /\ IF ub = "fault"
                 THEN Killed
                 ELSE /\ Commit(d3)
                      /\ S' = <<x>> \o S
                      /\ hist' = Append(hist, <<"push_front", x, x>>)
                      /\ peek' = NoPeek
                      /\ UNCHANGED fault
    /\ UNCHANGED <<elem, dropped, drop_log, heap_limit>>

\* push_back() that never calls try_resize().
push_back_unchecked ==
    /\ Running
    /\ op' = "push_back"
    /\ Len(hist) < MaxOps
    /\ \E allocOk, moved \in BOOLEAN, ub \in UbOutcomes :
          LET x  == NextElem
              d1 == Self
              h  == d1.head
              d2 == [d1 EXCEPT !.head = wrapping_add(d1, d1.head, 1)]
              d3 == SlotWrite(d2, h, x, ub)
              outside == \/ ResizeOutside(Self, allocOk, moved)
                         \/ ~InRegion(d2, h)
          IN  /\ Choice(Self, allocOk, moved, ub, outside)
              /\ oom' = (oom \/ ~allocOk)
              /\ IF ub = "fault"
                 THEN Killed
                 ELSE /\ Commit(d3)
                      /\ S' = Append(S, x)
                      /\ hist' = Append(hist, <<"push_back", x, x>>)
                      /\ peek' = NoPeek
                      /\ UNCHANGED fault
    /\ UNCHANGED <<elem, dropped, drop_log, heap_limit>>

push_back ==
    /\ Running
    /\ op' = "push_back"
    /\ Len(hist) < MaxOps
    /\ \E allocOk, moved \in BOOLEAN, ub \in UbOutcomes :
          LET x  == NextElem
              d1 == try_resize(Self, allocOk, moved, ub)
              h  == d1.head
              d2 == [d1 EXCEPT !.head = wrapping_add(d1, d1.head, 1)]
              d3 == SlotWrite(d2, h, x, ub)
              outside == \/ ResizeOutside(Self, allocOk, moved)
                         \/ ~InRegion(d2, h)
          IN  /\ Choice(Self, allocOk, moved, ub, outside)
              /\ oom' = (oom \/ ~allocOk)
              /\ IF ub = "fault"
                 THEN Killed
                 ELSE /\ Commit(d3)
                      /\ S' = Append(S, x)
                      /\ hist' = Append(hist, <<"push_back", x, x>>)
                      /\ peek' = NoPeek
                      /\ UNCHANGED fault
    /\ UNCHANGED <<elem, dropped, drop_log, heap_limit>>

\* pop_front() that asks try_resize first, as the pushes do.
pop_front_resizing ==
    /\ Running
    /\ op' = "pop_front"
    /\ Len(hist) < MaxOps
    /\ LET expected == IF S = <<>> THEN None ELSE Head(S)
           rest == IF S = <<>> THEN S ELSE Tail(S)
       IN  IF is_empty(Self)
           THEN /\ hist' = Append(hist, <<"pop_front", None, expected>>)
                /\ S' = rest
                /\ peek' = NoPeek
                /\ UNCHANGED <<tail, head, ring_buf, heap, fault, beyond>>
           ELSE \E moved \in BOOLEAN, ub \in UbOutcomes :
                   LET d1 == try_resize(Self, TRUE, moved, ub)
                       t  == d1.tail
                       d2 == [d1 EXCEPT !.tail = wrapping_add(d1, d1.tail, 1)]
                       outside == \/ ResizeOutside(Self, TRUE, moved)
                                  \/ ~InRegion(d2, t)
                   IN  /\ Choice(Self, TRUE, moved, ub, outside)
                       /\ IF ub = "fault"
                          THEN Killed
                          ELSE /\ Commit(d2)
                               /\ hist' = Append(hist,
                                     <<"pop_front", SlotRead(d2, t, ub), expected>>)
                               /\ S' = rest
                               /\ peek' = NoPeek
                               /\ UNCHANGED fault
    /\ UNCHANGED <<elem, dropped, drop_log, oom, heap_limit>>

pop_front ==
    /\ Running
    /\ op' = "pop_front"
    /\ Len(hist) < MaxOps
    /\ LET expected == IF S = <<>> THEN None ELSE Head(S)
           rest == IF S = <<>> THEN S ELSE Tail(S)
       IN  IF is_empty(Self)
           THEN /\ hist' = Append(hist, <<"pop_front", None, expected>>)
                /\ S' = rest
                /\ peek' = NoPeek
                /\ UNCHANGED <<tail, head, ring_buf, heap, fault, beyond>>
           ELSE \E ub \in UbOutcomes :
                   LET t  == tail
                       d2 == [Self EXCEPT !.tail = wrapping_add(Self, tail, 1)]
                   IN  /\ Choice(Self, TRUE, FALSE, ub, ~InRegion(d2, t))
                       /\ IF ub = "fault"
                          THEN Killed
                          ELSE /\ Commit(d2)
                               /\ hist' = Append(hist,
                                     <<"pop_front", SlotRead(d2, t, ub), expected>>)
                               /\ S' = rest
                               /\ peek' = NoPeek
                               /\ UNCHANGED fault
    /\ UNCHANGED <<elem, dropped, drop_log, oom, heap_limit>>

pop_back ==
    /\ Running
    /\ op' = "pop_back"
    /\ Len(hist) < MaxOps
    /\ LET expected == IF S = <<>> THEN None ELSE S[Len(S)]
           rest == IF S = <<>> THEN S ELSE SubSeq(S, 1, Len(S) - 1)
       IN  IF is_empty(Self)
           THEN /\ hist' = Append(hist, <<"pop_back", None, expected>>)
                /\ S' = rest
                /\ peek' = NoPeek
                /\ UNCHANGED <<tail, head, ring_buf, heap, fault, beyond>>
           ELSE \E ub \in UbOutcomes :
                   LET d2 == [Self EXCEPT !.head = wrapping_sub(Self, head, 1)]
                   IN  /\ Choice(Self, TRUE, FALSE, ub, ~InRegion(d2, d2.head))
                       /\ IF ub = "fault"
                          THEN Killed
                          ELSE /\ Commit(d2)
                               /\ hist' = Append(hist,
                                     <<"pop_back", SlotRead(d2, d2.head, ub), expected>>)
                               /\ S' = rest
                               /\ peek' = NoPeek
                               /\ UNCHANGED fault
    /\ UNCHANGED <<elem, dropped, drop_log, oom, heap_limit>>

front ==
    /\ Running
    /\ op' = "front"
    /\ LET expected == IF S = <<>> THEN None ELSE Head(S)
       IN  IF is_empty(Self)
           THEN /\ peek' = <<"front", None, expected>>
                /\ UNCHANGED <<tail, head, ring_buf, heap, S, hist, fault, beyond>>
           ELSE \E ub \in UbOutcomes :
                   /\ Choice(Self, TRUE, FALSE, ub, ~InRegion(Self, tail))
                   /\ IF ub = "fault"
                      THEN Killed
                      ELSE /\ peek' = <<"front", SlotRead(Self, tail, ub), expected>>
                           /\ UNCHANGED <<tail, head, ring_buf, heap, S, hist, fault>>
    /\ UNCHANGED <<elem, dropped, drop_log, oom, heap_limit>>

back ==
    /\ Running
    /\ op' = "back"
    /\ LET expected == IF S = <<>> THEN None ELSE S[Len(S)]
       IN  IF is_empty(Self)
           THEN /\ peek' = <<"back", None, expected>>
                /\ UNCHANGED <<tail, head, ring_buf, heap, S, hist, fault, beyond>>
           ELSE \E ub \in UbOutcomes :
                   LET h == wrapping_sub(Self, head, 1)
                   IN  /\ Choice(Self, TRUE, FALSE, ub, ~InRegion(Self, h))
                       /\ IF ub = "fault"
                          THEN Killed
                          ELSE /\ peek' = <<"back", SlotRead(Self, h, ub), expected>>
                               /\ UNCHANGED <<tail, head, ring_buf, heap, S, hist, fault>>
    /\ UNCHANGED <<elem, dropped, drop_log, oom, heap_limit>>

\* Drop for RawVec (Deque has no Drop of its own: no element is dropped).
RawVec_drop ==
    /\ Running
    /\ op' = "drop"
    /\ LET size == elem[1] * ring_buf.cap
       IN  IF size > 0
           THEN drop_log' = Append(drop_log,
                    [call |-> "dealloc", ptr |-> ring_buf.ptr,
                     size |-> size, align |-> elem[2], block |-> heap.bytes])
           ELSE drop_log' = drop_log
    /\ dropped' = TRUE
    /\ peek' = NoPeek
    /\ UNCHANGED <<tail, head, ring_buf, heap, elem, S, hist, fault, oom, beyond, heap_limit>>

Next ==
    \/ push_front
    \/ push_back
    \/ pop_front
    \/ pop_back
    \/ front
    \/ back
    \/ RawVec_drop

Init == Constructed(FALSE)

InitOom == Constructed(TRUE)

\* Runs in which every allocation succeeds.
Spec == Init /\ [][Next]_vars

\* Runs in which alloc and realloc may return null.
SpecOom == InitOom /\ [][Next]_vars

TypeOK ==
    /\ tail \in 0..(Modulus - 1)
    /\ head \in 0..(Modulus - 1)
    /\ ring_buf.cap \in 1..(2 * MaxOps)
    /\ DOMAIN heap.mem = 0..(ring_buf.cap - 1)
    /\ Len(hist) <= MaxOps

\* ------------------------------------------------------------ properties
\* The slots tail, tail+1, ..., head-1 (mod capacity), read in that order.
LiveSeq(d) ==
    [k \in 1..len(d) |->
        d.heap.mem[wrap_index(usize_wrapping_add(d.tail, k - 1), cap(d))]]

LastOp == hist[Len(hist)]

\* T is laid out so that size_of::<T>() = align_of::<T>() (i32, u64, u8).
SizeIsAlign == elem[1] = elem[2]

\* For such T the deque is the abstract sequence: kept as a check of the
\* model on the types the repository's own test uses.
SizeIsAlignRefines ==
    SizeIsAlign /\ ~fault =>
        /\ LiveSeq(Self) = S
        /\ \A i \in DOMAIN hist : hist[i][2] = hist[i][3]
        /\ peek[2] = peek[3]

\* C1: the deque behaves like the abstract sequence S: every push and pop
\* returns what S returns, and in every reachable state the slots tail ..
\* head-1 (mod capacity) read in order equal S.
C1_RefinesSequence ==
    ~fault =>
        /\ LiveSeq(Self) = S
        /\ \A i \in DOMAIN hist : hist[i][2] = hist[i][3]

\* C2: len() equals the number of pushes minus the number of pops that
\* returned a value, and is never negative.
C2_LenIsPushesMinusPops ==
    ~fault =>
        /\ len(Self) = nPush - nPopSome
        /\ len(Self) >= 0

C2_Witness ==
    /\ ~fault
    /\ nPush >= 4
    /\ nPopSome >= 1
    /\ Len(hist) > nPush + nPopSome
    /\ len(Self) >= 1
    /\ tail > head

\* hist is n calls of pushOp followed only by calls of popOp.
Shape(pushOp, popOp) ==
    /\ nPush >= 1
    /\ \A i \in DOMAIN hist :
          hist[i][1] = IF i <= nPush THEN pushOp ELSE popOp

nPop == Len(hist) - nPush

\* C3: FIFO: n push_back calls on a new deque followed by pop_front calls
\* return the values in the order they were pushed.
C3_Fifo ==
    ~fault /\ Shape("push_back", "pop_front") =>
        \A j \in 1..Min(nPop, nPush) : hist[nPush + j][2] = hist[j][2]

\* C4: LIFO from the front: n push_front calls on a new deque followed by
\* pop_front calls return the values in the reverse of the push order.
C4_LifoFromFront ==
    ~fault /\ Shape("push_front", "pop_front") =>
        \A j \in 1..Min(nPop, nPush) : hist[nPush + j][2] = hist[nPush + 1 - j][2]

\* C5: mixed ends: n push_front calls on a new deque followed by pop_back
\* calls return the n values in push order; after that a pop_back returns
\* no value and len() is 0.
C5_FrontThenBackDrains ==
    ~fault /\ Shape("push_front", "pop_back") =>
        /\ \A j \in 1..nPop :
              hist[nPush + j][2] = IF j <= nPush THEN hist[j][2] ELSE None
        /\ nPop >= nPush => len(Self) = 0

\* C6: when try_resize grows the buffer, the sequence of live elements and
\* len() are the same after the growth, under the new capacity, as before,
\* for a contiguous and for a wrapped live region.
C6_GrowthPreservesContent ==
    Running /\ is_full(Self) =>
        \A moved \in BOOLEAN, ub \in {"works", "garbage"} :
            (ub # "works" => ResizeOutside(Self, TRUE, moved)) =>
                LET g == try_resize(Self, TRUE, moved, ub)
                IN  /\ cap(g) > cap(Self)
                    /\ LiveSeq(g) = LiveSeq(Self)
                    /\ len(g) = len(Self)

\* C7: front() and back() return no value exactly when is_empty(); otherwise
\* the first and the last element; they change nothing of the deque, and a
\* repeated call returns the same value.
C7_Values ==
    ~fault /\ peek[1] \in {"front", "back"} =>
        /\ (peek[2] = None) <=> is_empty(Self)
        /\ peek[2] = peek[3]

C7_Frame ==
    /\ op' \in {"front", "back"} => UNCHANGED <<tail, head, ring_buf, heap>>
    /\ ~fault' /\ op' \in {"front", "back"} /\ peek'[1] = peek[1] =>
          peek'[2] = peek[2]

C7_FrontBack == [](C7_Values) /\ [][C7_Frame]_vars

\* C8: on an empty deque (tail = head, at any capacity and cursor position)
\* pop_front and pop_back return no value, do not fail, and leave tail,
\* head, capacity and the buffer contents unchanged.
C8_PopOnEmptyStep ==
    tail = head /\ op' \in Pops =>
        /\ hist' = Append(hist, <<op', None, None>>)
        /\ ~fault'
        /\ UNCHANGED <<tail, head, ring_buf, heap>>

C8_PopOnEmpty == [][C8_PopOnEmptyStep]_vars

C8_Witness ==
    /\ ~fault
    /\ op \in Pops
    /\ hist # <<>>
    /\ LastOp[2] = None
    /\ tail = head
    /\ tail >= 2
    /\ cap(Self) >= 4

\* C9: a failed allocation terminates the operation at once: the deque is
\* not used after it, and the step in which the allocator fails updates
\* neither the capacity nor a cursor and accesses no slot.
C9_FailStep ==
    ~oom /\ oom' =>
        /\ ring_buf'.cap = ring_buf.cap
        /\ UNCHANGED <<tail, head, hist>>

C9_AllocFailureFatal == [](oom => ~Running) /\ [][C9_FailStep]_vars

\* C10: every pushed element is returned by exactly one pop or is still in
\* the live range; destroying the deque releases the block exactly once and
\* drops no element of a slot outside the live range.
Returned ==
    {hist[i][2] : i \in {j \in DOMAIN hist : hist[j][1] \in Pops /\ hist[j][2] # None}}

LiveSlots ==
    {wrap_index(usize_wrapping_add(tail, k - 1), cap(Self)) : k \in 1..len(Self)}

LiveSet == {heap.mem[i] : i \in LiveSlots}

C10_SingleOwner ==
    ~fault =>
        /\ Returned \cup LiveSet = 1..nPush
        /\ Returned \cap LiveSet = {}
        /\ Cardinality(Returned) = nPopSome
        /\ Cardinality(LiveSet) = len(Self)
        /\ dropped =>
              /\ Cardinality({i \in DOMAIN drop_log : drop_log[i].call = "dealloc"}) = 1
              /\ \A i \in DOMAIN drop_log :
                    drop_log[i].call = "drop_in_place" => drop_log[i].slot \in LiveSlots

\* C11: after every RawVec::grow the block is sized for the new capacity:
\* the size asked of realloc is size_of::<T>() times the new capacity, so
\* every slot 0 .. capacity-1 lies inside the block, and the growth keeps
\* the bytes of the old slots.
C11_RegionSizedForCapacity ==
    /\ Running /\ ring_buf.ptr # "null" =>
          /\ heap.bytes = elem[1] * cap(Self)
          /\ \A i \in 0..(cap(Self) - 1) : InRegion(Self, i)
    /\ Running /\ is_full(Self) =>
          \A moved \in BOOLEAN :
              LET g == grow(Self, TRUE, moved)
              IN  /\ g.heap.bytes = elem[1] * cap(g)
                  /\ \A i \in 0..(cap(Self) - 1) : g.heap.mem[i] = heap.mem[i]

\* C12: the size and alignment Drop for RawVec passes to dealloc are those
\* of the block's current allocation.
Deallocs == {i \in DOMAIN drop_log : drop_log[i].call = "dealloc"}

C12_DeallocMatchesAllocation ==
    \A i \in Deallocs :
        /\ drop_log[i].ptr # "null"
        /\ drop_log[i].size = drop_log[i].block
        /\ drop_log[i].align = elem[2]

\* C13: in every state reached from new() by pushes and pops the capacity
\* is a power of two and at least 1, which is what wrap_index requires of
\* its size argument.
C13_CapacityPowerOfTwo ==
    /\ cap(Self) >= 1
    /\ is_power_of_two(cap(Self))

C13_Witness ==
    /\ ~fault
    /\ cap(Self) = 8
    /\ nPopSome >= 1

\* C14: the deque never holds more than capacity - 1 elements, and
\* head = tail exactly when it holds none.
C14_OneSlotReserve ==
    ~fault =>
        /\ Len(S) <= cap(Self) - 1
        /\ len(Self) = Len(S)
        /\ (head = tail) <=> (Len(S) = 0)

C14_Witness ==
    /\ ~fault
    /\ cap(Self) = 4
    /\ Len(S) = 3
    /\ tail > head

\* C15: pop_front, pop_back, front and back never change the capacity and
\* never reallocate; the capacity never decreases, and only a push changes
\* it.
C15_Step ==
    ~fault' =>
        /\ op' \in Pops \cup {"front", "back"} =>
              /\ ring_buf' = ring_buf
              /\ heap'.bytes = heap.bytes
        /\ ring_buf'.cap >= ring_buf.cap
        /\ ring_buf'.cap # ring_buf.cap => op' \in Pushes

C15_OnlyPushesGrow == [][C15_Step]_vars

C15_Witness ==
    /\ ~fault
    /\ op \in Pops
    /\ hist # <<>>
    /\ LastOp[2] # None
    /\ cap(Self) = 8
    /\ nPopSome >= 2

\* The growths try_resize can make in the current state.
Resized ==
    {try_resize(Self, TRUE, moved, ub) : moved \in BOOLEAN, ub \in {"works", "garbage"}}

\* C16: tail and head are in [0, capacity) in every reachable state, also
\* right after try_resize has advanced head by the old capacity, and every
\* slot offset a push, pop, front or back uses is in [0, capacity).
C16_CursorsInRange ==
    /\ tail \in 0..(cap(Self) - 1)
    /\ head \in 0..(cap(Self) - 1)
    /\ Running =>
          \A d \in Resized :
              /\ d.tail \in 0..(cap(d) - 1)
              /\ d.head \in 0..(cap(d) - 1)
              /\ wrapping_sub(d, d.tail, 1) \in 0..(cap(d) - 1)
              /\ wrapping_add(d, d.head, 1) \in 0..(cap(d) - 1)
              /\ is_full(Self) /\ tail > head =>
                    cap(Self) + head - 1 \in 0..(cap(d) - 1)
    /\ Running /\ ~is_empty(Self) =>
          /\ wrapping_add(Self, tail, 1) \in 0..(cap(Self) - 1)
          /\ wrapping_sub(Self, head, 1) \in 0..(cap(Self) - 1)

C16_Witness ==
    /\ ~fault
    /\ op \in Pushes
    /\ cap(Self) = 8
    /\ head >= 6
    /\ tail < head

\* The elements pushed and not yet returned by a pop.
Owned == (1..nPush) \ Returned

\* C17: every slot pop_front, pop_back, front and back read, and every
\* source slot of the copy in try_resize, is in the live range and holds a
\* value written by a push that no pop has removed since.
C17_ReadsOnlyLiveValues ==
    /\ Running /\ ~is_empty(Self) =>
          LET b == wrapping_sub(Self, head, 1)
          IN  /\ tail \in LiveSlots
              /\ heap.mem[tail] \in Owned
              /\ b \in LiveSlots
              /\ heap.mem[b] \in Owned
    /\ Running /\ is_full(Self) /\ tail > head =>
          \A moved \in BOOLEAN :
              LET g == grow(Self, TRUE, moved)
              IN  \A j \in 0..(head - 1) :
                      /\ j \in LiveSlots
                      /\ g.heap.mem[j] \in Owned

\* C18: a push grows the buffer exactly when capacity - len() = 1 at its
\* start, and then doubles the capacity once; right after the growth the
\* deque holds the same elements and is not full (capacity - len() >= 2),
\* and only then is the cursor moved. A push that starts with more room
\* leaves the capacity and the allocation unchanged.
C18_Step ==
    op' \in Pushes /\ ~fault' =>
        LET full == cap(Self) - len(Self) = 1
        IN  /\ full => /\ ring_buf'.cap = 2 * ring_buf.cap
                       /\ \A d \in Resized :
                              /\ cap(d) = 2 * cap(Self)
                              /\ len(d) = len(Self)
                              /\ cap(d) - len(d) >= 2
                              /\ d.tail = tail
        /\ ~full => /\ ring_buf'.cap = ring_buf.cap
                    /\ ring_buf'.ptr = ring_buf.ptr
                    /\ heap'.bytes = heap.bytes
                    /\ Resized = {Self}
        /\ Len(S') = len(Self) + 1
        /\ ring_buf'.cap - Len(S') >= 1

RECURSIVE Pow2(_)
Pow2(n) == IF n = 0 THEN 1 ELSE 2 * Pow2(n - 1)

Capacities == {Pow2(n) : n \in 0..MaxCapBits}

InitArith ==
    /\ \E c \in Capacities :
          /\ ring_buf = [ptr |-> "block", cap |-> c]
          /\ heap = [bytes |-> c, mem |-> [i \in 0..(c - 1) |-> Uninit]]
          /\ tail \in 0..(c - 1)
          /\ head \in 0..(c - 1)
    /\ elem = <<1, 1>>
    /\ S = <<>>
    /\ hist = <<>>
    /\ peek = NoPeek
    /\ fault = FALSE
    /\ dropped = FALSE
    /\ drop_log = <<>>
    /\ oom = FALSE
    /\ op = "new"
    /\ beyond = "none"
    /\ heap_limit = FALSE

\* Deque::len: peek records the result.
Deque_len ==
    /\ op' = "len"
    /\ peek' = <<"len", len(Self), None>>
    /\ UNCHANGED <<tail, head, ring_buf, heap, elem, S, hist, fault, dropped,
                   drop_log, oom, beyond, heap_limit>>

\* Deque::wrapping_sub(0, 1): peek records the result.
Deque_wrapping_sub ==
    /\ op' = "wrapping_sub"
    /\ peek' = <<"wrapping_sub", wrapping_sub(Self, 0, 1), None>>
    /\ UNCHANGED <<tail, head, ring_buf, heap, elem, S, hist, fault, dropped,
                   drop_log, oom, beyond, heap_limit>>

NextArith == Deque_len \/ Deque_wrapping_sub

SpecArith == InitArith /\ [][NextArith]_vars

\* (head - tail) mod capacity, the remainder in 0..capacity-1.
ModCap == CHOOSE r \in 0..(cap(Self) - 1) :
              \E q \in (0 - 1)..0 : head - tail = q * cap(Self) + r

\* C19: for every power-of-two capacity and cursors below it, len() --
\* the w-bit wrapping difference head - tail masked with capacity - 1 --
\* is (head - tail) mod capacity, also when head < tail, and
\* wrapping_sub(0, 1) is capacity - 1.
C19_MaskIsModulo ==
    is_power_of_two(cap(Self)) /\ tail < cap(Self) /\ head < cap(Self) =>
        /\ peek[1] = "len" => peek[2] = ModCap
        /\ peek[1] = "wrapping_sub" => peek[2] = cap(Self) - 1

\* len() was asked with head behind tail in a buffer of 16 slots.
C19_Witness ==
    /\ peek[1] = "len"
    /\ cap(Self) = 16
    /\ head < tail
    /\ peek[2] = 16 + head - tail

\* The number of elements after the first k operations of hist.
LenAfter(k) ==
    Cardinality({i \in 1..k : hist[i][1] \in Pushes})
        - Cardinality({i \in 1..k : hist[i][1] \in Pops /\ hist[i][2] # None})

\* The largest len() the deque has had since new().
MaxLenEver ==
    CHOOSE m \in {LenAfter(k) : k \in 0..Len(hist)} :
        \A k \in 0..Len(hist) : LenAfter(k) <= m

\* The smallest power of two strictly greater than n.
NextPow2Above(n) ==
    CHOOSE c \in {Pow2(k) : k \in 0..(n + 1)} :
        /\ c > n
        /\ \A k \in 0..(n + 1) : Pow2(k) > n => c <= Pow2(k)

\* C20: the capacity is the smallest power of two strictly greater than the
\* largest len() the deque has ever had: 1 after new(), 2 from the first
\* push on, and never smaller again after pops.
C20_CapacityTracksPeakLen ==
    ~fault =>
        /\ cap(Self) = NextPow2Above(MaxLenEver)
        /\ hist = <<>> => cap(Self) = 1 /\ cap(Self) - len(Self) = 1
        /\ nPush >= 1 => cap(Self) >= 2

\* Four pushes took the capacity to 8 and two pops left it there.
C20_Witness ==
    /\ ~fault
    /\ cap(Self) = 8
    /\ nPopSome >= 2
    /\ len(Self) <= 2
    /\ MaxLenEver = 4

====
